---- MODULE Spec2Model ----
(***************************************************************************)
(* A model of kura (apim-kura): backup, restore and compare of Azure API   *)
(* Management subscription keys.                                           *)
(*                                                                         *)
(* Strings that the code cuts apart (scopes, names) are sequences of       *)
(* tokens: "/" is the path separator and every other token is a non-empty  *)
(* run of characters that holds no "/".  Concatenation is \o, the marker   *)
(* "/service/" is the three tokens <<"/", "service", "/">>, and an index   *)
(* into a string counts tokens, from 0 as in Go.  Strings the code only    *)
(* copies or compares (keys, display names, states, dates) are TLA+        *)
(* strings.                                                                *)
(***************************************************************************)
EXTENDS Integers, Sequences, FiniteSets, TLC

VARIABLES
    \* ---- scope functions applied to drawn inputs
    args,        \* the arguments drawn for extractScopeSuffix / buildScopeFromSuffix
    built,       \* result of buildScopeFromSuffix, or None
    extracted,   \* result of extractScopeSuffix, or None
    rebuilt,     \* the scope built for the restore target from extracted, or None
    reextracted, \* result of extractScopeSuffix for the scope built from extracted, or None
    spc,         \* position of the scope run
    \* ---- kura compare
    fileA,       \* content of backup file A: a sequence of records, or Unreadable
    fileB,       \* content of backup file B
    subsA,       \* runCompare: subsA
    subsB,       \* runCompare: subsB
    ci,          \* runCompare: position of the outer loop in subsA (from 1)
    matched,     \* runCompare: matched
    missing,     \* runCompare: missing
    mismatch,    \* runCompare: mismatch
    cmpOut,      \* the lines runCompare has printed
    cmpErr,      \* what runCompare returned, NotReturned before it does
    cpc,         \* position of the compare run
    \* ---- kura backup and kura restore, against one APIM instance
    apim,          \* the instance the flags name: subscriptionID, resourceGroup, apimName
    remote,        \* the subscriptions the instance holds: entity name -> contract or Absent
    input,         \* content of the backup file: what backup writes and restore reads
    fromBackup,    \* the file is what backup wrote from a complete listing of the instance
    origin,        \* remote when backup wrote the file
    afterRestore,  \* the command before this one restored every record of the file
    pc,            \* the command that runs or ran last, and where it is
    calls,         \* the calls the command made to the service, in order
    remote0,       \* remote when the command started
    subs,          \* runRestore, runDelete: subs
    ri,            \* runRestore, runDelete: position of the loop in subs (from 1)
    failed,        \* runRestore, runDelete: failed
    restoreDryRun, \* restore: the --dry-run flag
    restored,      \* runRestore: restored
    restoreOut,    \* the line runRestore printed for each record
    restoreErr,    \* what runRestore returned
    listErr,       \* runBackup: the error ListSubscriptions returned
    wrote,         \* runBackup: os.WriteFile has written the file
    backupOut,     \* the lines runBackup printed
    backupErr,     \* what runBackup returned
    deleteAll,     \* delete: the --all flag
    deleteDryRun,  \* delete: the --dry-run flag
    deleted,       \* runDelete: deleted
    skipped,       \* runDelete: skipped
    deleteOut,     \* the line runDelete printed for each record
    deleteErr      \* what runDelete returned

scopeVars == <<args, built, extracted, rebuilt, reextracted, spc>>
cmpVars == <<fileA, fileB, subsA, subsB, ci, matched, missing, mismatch, cmpOut, cmpErr, cpc>>
instVars == <<apim, remote, input, fromBackup, origin, afterRestore, pc, calls, remote0>>
loopVars == <<subs, ri, failed>>
restoreVars == <<restoreDryRun, restored, restoreOut, restoreErr>>
backupVars == <<listErr, wrote, backupOut, backupErr>>
deleteVars == <<deleteAll, deleteDryRun, deleted, skipped, deleteOut, deleteErr>>
opsVars == <<instVars, loopVars, restoreVars, backupVars, deleteVars>>
vars == <<scopeVars, cmpVars, opsVars>>

\* what a run of one command leaves alone: the state of the other commands
notScope == <<cmpVars, opsVars>>
notCompare == <<scopeVars, opsVars>>
notOps == <<scopeVars, cmpVars>>

\* the value of a result that is not computed yet
None == <<"not computed">>

(***************************************************************************)
(* Bounds of the drawn inputs.                                             *)
(***************************************************************************)
MaxScopeLen == 7
MaxSuffixLen == 4
MaxNameLen == 1

Alphabet == {"/", "service", "products", "p1"}

Strings(n) == UNION {[1..k -> Alphabet] : k \in 0..n}

\* a name of a resource: a non-empty string that holds no "/"
Names(n) == {s \in Strings(n) : s # <<>> /\ \A i \in 1..Len(s) : s[i] # "/"}

(***************************************************************************)
(* Go's strings package and slice expressions, on token strings.           *)
(***************************************************************************)
\* a slice expression out of range panics
Panic == <<"panic: slice bounds out of range">>

\* s[lo:hi]
Slice(s, lo, hi) ==
    IF lo < 0 \/ hi > Len(s) \/ lo > hi THEN Panic ELSE SubSeq(s, lo + 1, hi)

\* s[lo:]
SliceFrom(s, lo) == Slice(s, lo, Len(s))

\* strings.HasPrefix(s[i:], sub)
MatchAt(s, sub, i) ==
    /\ i >= 0
    /\ i + Len(sub) <= Len(s)
    /\ SubSeq(s, i + 1, i + Len(sub)) = sub

\* strings.Index(s, sub): the first index of sub in s, or -1
Index(s, sub) ==
    LET hits == {i \in 0..Len(s) : MatchAt(s, sub, i)}
    IN  IF hits = {} THEN -1 ELSE CHOOSE i \in hits : \A j \in hits : i <= j

\* strings.LastIndex(s, sub): the last index of sub in s, or -1
LastIndex(s, sub) ==
    LET hits == {i \in 0..Len(s) : MatchAt(s, sub, i)}
    IN  IF hits = {} THEN -1 ELSE CHOOSE i \in hits : \A j \in hits : i >= j

\* strings.TrimRight(s, "/"): s without all its trailing "/"
RECURSIVE TrimRight(_)
TrimRight(s) ==
    IF s # <<>> /\ s[Len(s)] = "/" THEN TrimRight(SubSeq(s, 1, Len(s) - 1)) ELSE s

(***************************************************************************)
(* restore.go: the scope extractor and rebuilder.                          *)
(***************************************************************************)
marker == <<"/", "service", "/">>

\* extractScopeSuffix without the early return for a rest that holds no "/"
extractScopeSuffix_NoSlashCheck(scope) ==
    LET idx == LastIndex(scope, marker)
    IN  IF idx = -1 THEN <<>>
        ELSE LET rest == SliceFrom(scope, idx + Len(marker))
                 slashIdx == Index(rest, <<"/">>)
             IN  IF rest = Panic THEN Panic
                 ELSE LET suffix == SliceFrom(rest, slashIdx + 1)
                      IN  IF suffix = Panic THEN Panic ELSE TrimRight(suffix)

\* extractScopeSuffix that hands back a scope without the marker as it is
extractScopeSuffix_NoMarkerWhole(scope) ==
    LET idx == LastIndex(scope, marker)
    IN  IF idx = -1 THEN scope
        ELSE LET rest == SliceFrom(scope, idx + Len(marker))
                 slashIdx == Index(rest, <<"/">>)
             IN  IF rest = Panic THEN Panic
                 ELSE IF slashIdx = -1 THEN <<>>
                 ELSE LET suffix == SliceFrom(rest, slashIdx + 1)
                      IN  IF suffix = Panic THEN Panic ELSE TrimRight(suffix)

extractScopeSuffix(scope) ==
    LET idx == LastIndex(scope, marker)
    IN  IF idx = -1 THEN <<>>
        ELSE LET rest == SliceFrom(scope, idx + Len(marker))
                 slashIdx == Index(rest, <<"/">>)
             IN  IF rest = Panic THEN Panic
                 ELSE IF slashIdx = -1 THEN <<>>
                 ELSE LET suffix == SliceFrom(rest, slashIdx + 1)
                      IN  IF suffix = Panic THEN Panic ELSE TrimRight(suffix)

\* fmt.Sprintf("/subscriptions/%s/resourceGroups/%s/providers/Microsoft.ApiManagement/service/%s", ...)
scopeBase(azureSubscriptionID, resourceGroup, apimName) ==
    <<"/", "subscriptions", "/">> \o azureSubscriptionID
        \o <<"/", "resourceGroups", "/">> \o resourceGroup
        \o <<"/", "providers", "/", "Microsoft.ApiManagement", "/", "service", "/">>
        \o apimName

\* buildScopeFromSuffix without the test for an empty suffix
buildScopeFromSuffix_AlwaysSlash(azureSubscriptionID, resourceGroup, apimName, suffix) ==
    scopeBase(azureSubscriptionID, resourceGroup, apimName) \o <<"/">> \o suffix

buildScopeFromSuffix(azureSubscriptionID, resourceGroup, apimName, suffix) ==
    LET base == scopeBase(azureSubscriptionID, resourceGroup, apimName)
    IN  IF suffix = <<>> THEN base ELSE base \o <<"/">> \o suffix

(***************************************************************************)
(* The scope functions applied to drawn arguments.                         *)
(***************************************************************************)
ExtractArgs ==
    [mode : {"extract"}, scope : Strings(MaxScopeLen),
     azureSubscriptionID : {<<"sub1">>}, resourceGroup : {<<"rg1">>},
     apimName : {<<"apim1">>, <<"service">>}, suffix : {<<>>}]

BuildArgs ==
    [mode : {"build"}, scope : {<<>>},
     azureSubscriptionID : {<<"sub1">>, <<"service">>},
     resourceGroup : {<<"rg1">>, <<"service">>},
     apimName : Names(MaxNameLen) \cup {<<"apim1">>},
     suffix : Strings(MaxSuffixLen)]

ScopeInit ==
    /\ args \in ExtractArgs \cup BuildArgs
    /\ built = None
    /\ extracted = None
    /\ rebuilt = None
    /\ reextracted = None
    /\ spc = "start"

\* extractScopeSuffix(args.scope)
ExtractInput ==
    /\ spc = "start"
    /\ args.mode = "extract"
    /\ extracted' = extractScopeSuffix(args.scope)
    /\ spc' = "extracted"
    /\ UNCHANGED <<args, built, rebuilt, reextracted>>
    /\ UNCHANGED notScope

\* buildScopeFromSuffix(args...)
BuildInput ==
    /\ spc = "start"
    /\ args.mode = "build"
    /\ built' = buildScopeFromSuffix(args.azureSubscriptionID, args.resourceGroup,
                                     args.apimName, args.suffix)
    /\ spc' = "built"
    /\ UNCHANGED <<args, extracted, rebuilt, reextracted>>
    /\ UNCHANGED notScope

\* extractScopeSuffix applied to the scope that was built
ExtractBuilt ==
    /\ spc = "built"
    /\ extracted' = extractScopeSuffix(built)
    /\ spc' = "roundtrip"
    /\ UNCHANGED <<args, built, rebuilt, reextracted>>
    /\ UNCHANGED notScope


(***************************************************************************)
(* client.go: SubscriptionInfo, the record of the backup file.             *)
(***************************************************************************)
SubscriptionInfo(id, name, props) ==
    [ID |-> id, Name |-> name, Type |-> "Microsoft.ApiManagement/service/subscriptions",
     Properties |-> props]

\* a product-level scope of some instance
ProductScope == scopeBase(<<"sub1">>, <<"rg1">>, <<"apim1">>) \o <<"/", "products", "/", "p1">>

Props0 ==
    [OwnerID |-> "", Scope |-> ProductScope, DisplayName |-> "Key One",
     State |-> "active", CreatedDate |-> "2024-01-01T00:00:00Z", StartDate |-> "",
     EndDate |-> "", ExpirationDate |-> "", NotificationDate |-> "",
     PrimaryKey |-> "pk1", SecondaryKey |-> "sk1", StateComment |-> "",
     AllowTracing |-> FALSE]

Sub0 == SubscriptionInfo("id1", "s1", Props0)

\* Sub0 with one property changed
Variant(field, value) == [Sub0 EXCEPT !.Properties[field] = value]

(***************************************************************************)
(* The backup files compare is run on.  File A holds records that differ   *)
(* in name, id and keys, and records that share their keys; file B also    *)
(* holds Sub0 with one property changed, for every property.               *)
(***************************************************************************)
MaxFileA == 2
MaxFileB == 2

\* what os.ReadFile and json.Unmarshal make of a file: its records, or an error
File(list) == [readable |-> TRUE, subs |-> list]
\* os.ReadFile fails, or json.Unmarshal does
Unreadable == [readable |-> FALSE, subs |-> <<>>]

RecordsA ==
    { Sub0,
      SubscriptionInfo("id2", "s2", Props0),
      Variant("DisplayName", "Key Renamed"),
      [Sub0 EXCEPT !.Name = "master"],
      SubscriptionInfo("id3", "s3",
          [Props0 EXCEPT !.PrimaryKey = "pk3", !.SecondaryKey = "sk3"]) }

RecordsB ==
    RecordsA \cup
    { SubscriptionInfo("id3", "s3",
          [Props0 EXCEPT !.PrimaryKey = "pk3", !.SecondaryKey = "sk9"]),
      Variant("PrimaryKey", "pk9"),
      Variant("SecondaryKey", "sk9"),
      Variant("Scope", scopeBase(<<"sub1">>, <<"rg1">>, <<"apim1">>)),
      Variant("State", "suspended"),
      Variant("OwnerID", "/users/1"),
      Variant("AllowTracing", TRUE),
      Variant("CreatedDate", "2025-06-01T00:00:00Z"),
      Variant("StartDate", "2024-02-01T00:00:00Z"),
      Variant("EndDate", "2024-03-01T00:00:00Z"),
      Variant("ExpirationDate", "2024-04-01T00:00:00Z"),
      Variant("NotificationDate", "2024-05-01T00:00:00Z"),
      Variant("StateComment", "on hold"),
      [Variant("DisplayName", "Key Renamed") EXCEPT !.Name = "master"],
      SubscriptionInfo("id1", "s1",
          [Props0 EXCEPT !.DisplayName = "Key Renamed",
                         !.CreatedDate = "2025-06-01T00:00:00Z"]),
      SubscriptionInfo("id3", "s3",
          [Props0 EXCEPT !.PrimaryKey = "pk3", !.SecondaryKey = "sk3",
                         !.CreatedDate = "2025-06-01T00:00:00Z"]) }

SeqsUpTo(S, n) == UNION {[1..k -> S] : k \in 0..n}

(***************************************************************************)
(* compare.go                                                              *)
(***************************************************************************)
\* filterOutMaster that keeps every record
filterOutMaster_Keep(list) == list

filterOutMaster(list) == SelectSeq(list, LAMBDA sub : sub.Name # "master")

\* attributesEqual without its last conjunct
attributesEqual_NoStateComment(subA, subB) ==
    LET propsA == subA.Properties
        propsB == subB.Properties
    IN  /\ propsA.DisplayName = propsB.DisplayName
        /\ propsA.Scope = propsB.Scope
        /\ propsA.State = propsB.State
        /\ propsA.OwnerID = propsB.OwnerID
        /\ propsA.PrimaryKey = propsB.PrimaryKey
        /\ propsA.SecondaryKey = propsB.SecondaryKey
        /\ propsA.AllowTracing = propsB.AllowTracing
        /\ propsA.StartDate = propsB.StartDate
        /\ propsA.EndDate = propsB.EndDate
        /\ propsA.ExpirationDate = propsB.ExpirationDate
        /\ propsA.NotificationDate = propsB.NotificationDate

attributesEqual(subA, subB) ==
    LET propsA == subA.Properties
        propsB == subB.Properties
    IN  /\ propsA.DisplayName = propsB.DisplayName
        /\ propsA.Scope = propsB.Scope
        /\ propsA.State = propsB.State
        /\ propsA.OwnerID = propsB.OwnerID
        /\ propsA.PrimaryKey = propsB.PrimaryKey
        /\ propsA.SecondaryKey = propsB.SecondaryKey
        /\ propsA.AllowTracing = propsB.AllowTracing
        /\ propsA.StartDate = propsB.StartDate
        /\ propsA.EndDate = propsB.EndDate
        /\ propsA.ExpirationDate = propsB.ExpirationDate
        /\ propsA.NotificationDate = propsB.NotificationDate
        /\ propsA.StateComment = propsB.StateComment

\* the properties printAttributeDifferences looks at, in its order
\* printedFields without the creation date
printedFields_NoCreatedDate ==
    <<"DisplayName", "Scope", "State", "OwnerID", "AllowTracing",
      "StartDate", "EndDate", "ExpirationDate", "NotificationDate", "StateComment">>

printedFields ==
    <<"DisplayName", "Scope", "State", "OwnerID", "AllowTracing", "CreatedDate",
      "StartDate", "EndDate", "ExpirationDate", "NotificationDate", "StateComment">>

\* printAttributeDifferences without the line for the scope
printAttributeDifferences_NoScope(subA, subB) ==
    SelectSeq(printedFields,
              LAMBDA f : f # "Scope" /\ subA.Properties[f] # subB.Properties[f])

\* the fields printAttributeDifferences prints a line for
printAttributeDifferences(subA, subB) ==
    SelectSeq(printedFields, LAMBDA f : subA.Properties[f] # subB.Properties[f])

\* the join made on the primary key alone
keysMatch_PrimaryOnly(subA, subB) ==
    subA.Properties.PrimaryKey = subB.Properties.PrimaryKey

\* the condition of the inner loop of runCompare
keysMatch(subA, subB) ==
    /\ subA.Properties.PrimaryKey = subB.Properties.PrimaryKey
    /\ subA.Properties.SecondaryKey = subB.Properties.SecondaryKey

\* the inner loop of runCompare from position j of bs: the position it breaks
\* at, or 0 when it runs to the end (found stays false)
\* an inner loop that gives up at the first record of B with other keys
innerLoop_FirstOnly(subA, bs, j) ==
    IF j > Len(bs) THEN 0
    ELSE IF keysMatch(subA, bs[j]) THEN j
    ELSE 0

\* an inner loop that takes the last record of B with both keys
innerLoop_LastMatch(subA, bs, j) ==
    LET ms == {k \in j..Len(bs) : keysMatch(subA, bs[k])}
    IN  IF ms = {} THEN 0 ELSE CHOOSE k \in ms : \A m \in ms : m <= k

RECURSIVE innerLoop(_, _, _)
innerLoop(subA, bs, j) ==
    IF j > Len(bs) THEN 0
    ELSE IF keysMatch(subA, bs[j]) THEN j
    ELSE innerLoop(subA, bs, j + 1)

NotReturned == [kind |-> "running", n |-> 0]
Nil == [kind |-> "nil", n |-> 0]
\* fmt.Errorf of a fixed message, and of a message that holds a count
Errorf(kind) == [kind |-> kind, n |-> 0]
ErrorfN(kind, n) == [kind |-> kind, n |-> n]

\* the result that counts the missing records only
compareResult_MissingOnly(miss, mism) ==
    IF miss > 0 \/ mism > 0
    THEN ErrorfN("key(s) missing or attributes differ", miss)
    ELSE Nil

\* runCompare, lines 109-112: what it returns after the summary line
compareResult(miss, mism) ==
    IF miss > 0 \/ mism > 0
    THEN ErrorfN("key(s) missing or attributes differ", miss + mism)
    ELSE Nil

CompareInit ==
    /\ fileA \in {File(f) : f \in SeqsUpTo(RecordsA, MaxFileA)} \cup {Unreadable}
    /\ fileB \in {File(f) : f \in SeqsUpTo(RecordsB, MaxFileB)} \cup {Unreadable}
    /\ subsA = <<>>
    /\ subsB = <<>>
    /\ ci = 0
    /\ matched = 0
    /\ missing = 0
    /\ mismatch = 0
    /\ cmpOut = <<>>
    /\ cmpErr = NotReturned
    /\ cpc = "start"

\* runCompare, lines 62-72: a file that cannot be loaded ends the run
CompareLoadFails ==
    /\ cpc = "start"
    /\ ~fileA.readable \/ ~fileB.readable
    /\ cmpErr' = IF ~fileA.readable THEN Errorf("failed to load file A")
                 ELSE Errorf("failed to load file B")
    /\ cpc' = "done"
    /\ UNCHANGED <<fileA, fileB, subsA, subsB, ci, matched, missing, mismatch, cmpOut>>
    /\ UNCHANGED notCompare

\* runCompare, lines 62-82: load both files, drop the master subscriptions
CompareLoad ==
    /\ cpc = "start"
    /\ fileA.readable /\ fileB.readable
    /\ subsA' = filterOutMaster(fileA.subs)
    /\ subsB' = filterOutMaster(fileB.subs)
    /\ matched' = 0 /\ missing' = 0 /\ mismatch' = 0
    /\ ci' = 1
    /\ cmpOut' = <<>>
    /\ cpc' = "loop"
    /\ UNCHANGED <<fileA, fileB, cmpErr>>
    /\ UNCHANGED notCompare

\* runCompare, lines 83-106: one pass of the outer loop
CompareRecord ==
    /\ cpc = "loop"
    /\ ci <= Len(subsA)
    /\ LET subA == subsA[ci]
           j == innerLoop(subA, subsB, 1)
       IN  IF j = 0
           THEN /\ cmpOut' = Append(cmpOut, [tag |-> "MISS", a |-> ci, b |-> 0, diff |-> <<>>])
                /\ missing' = missing + 1
                /\ UNCHANGED <<matched, mismatch>>
           ELSE IF attributesEqual(subA, subsB[j])
           THEN /\ cmpOut' = Append(cmpOut, [tag |-> "OK", a |-> ci, b |-> j, diff |-> <<>>])
                /\ matched' = matched + 1
                /\ UNCHANGED <<missing, mismatch>>
           ELSE /\ cmpOut' = Append(cmpOut,
                        [tag |-> "DIFF", a |-> ci, b |-> j,
                         diff |-> printAttributeDifferences(subA, subsB[j])])
                /\ mismatch' = mismatch + 1
                /\ UNCHANGED <<matched, missing>>
    /\ ci' = ci + 1
    /\ UNCHANGED <<fileA, fileB, subsA, subsB, cmpErr, cpc>>
    /\ UNCHANGED notCompare

\* runCompare, lines 108-112: the summary line and the result
CompareReturn ==
    /\ cpc = "loop"
    /\ ci > Len(subsA)
    /\ cmpOut' = Append(cmpOut, [tag |-> "SUMMARY", a |-> Len(subsA), b |-> 0, diff |-> <<>>])
    /\ cmpErr' = compareResult(missing, mismatch)
    /\ cpc' = "done"
    /\ UNCHANGED <<fileA, fileB, subsA, subsB, ci, matched, missing, mismatch>>
    /\ UNCHANGED notCompare


\* runRestore, lines 313-314: the scope of the target for the suffix extracted
RebuildExtracted ==
    /\ spc = "extracted"
    /\ built' = buildScopeFromSuffix(args.azureSubscriptionID, args.resourceGroup,
                                     args.apimName, extracted)
    /\ spc' = "rebuilt"
    /\ UNCHANGED <<args, extracted, rebuilt, reextracted>>
    /\ UNCHANGED notScope

\* the instance a backup taken elsewhere is restored into
RestoreTarget ==
    [azureSubscriptionID |-> <<"subT">>, resourceGroup |-> <<"rgT">>, apimName |-> <<"apimT">>]

\* runRestore, lines 313-314, for a record whose scope is the scope that was
\* built: the scope of RestoreTarget for the suffix extracted
RebuildForTarget ==
    /\ spc = "roundtrip"
    /\ rebuilt' = buildScopeFromSuffix(RestoreTarget.azureSubscriptionID,
                                       RestoreTarget.resourceGroup,
                                       RestoreTarget.apimName, extracted)
    /\ spc' = "restored"
    /\ UNCHANGED <<args, built, extracted, reextracted>>
    /\ UNCHANGED notScope

\* extractScopeSuffix applied to the scope rebuilt from the suffix extracted
ExtractRebuilt ==
    /\ spc = "rebuilt"
    /\ reextracted' = extractScopeSuffix(built)
    /\ spc' = "normalised"
    /\ UNCHANGED <<args, built, extracted, rebuilt>>
    /\ UNCHANGED notScope

ScopeNext ==
    \/ ExtractInput \/ BuildInput \/ ExtractBuilt \/ RebuildExtracted
    \/ RebuildForTarget \/ ExtractRebuilt

(***************************************************************************)
(* The API Management service, as client.go uses it.  A field of the SDK   *)
(* that is a pointer is NilPtr or Ptr(v).                                  *)
(***************************************************************************)
NilPtr == [nil |-> TRUE]
Ptr(v) == [nil |-> FALSE, v |-> v]

\* client.go: deref
deref(p) == IF p.nil THEN "" ELSE p.v

\* a time.Time: the seconds as text, and the nanoseconds
Time(sec, nsec) == [sec |-> sec, nsec |-> nsec]

\* t.Format("2006-01-02T15:04:05Z"): the seconds, no fraction
Format(t) == t.sec

Absent == [exists |-> FALSE]

\* the names of the subscriptions of an instance, in the order it lists them
EntityNames == <<"master", "s1", "s2">>

\* the resource id of a subscription of the instance
EntityID(inst, name) ==
    scopeBase(inst.subscriptionID, inst.resourceGroup, inst.apimName)
        \o <<"/", "subscriptions", "/", name>>

InstanceScope(inst) == scopeBase(inst.subscriptionID, inst.resourceGroup, inst.apimName)

\* the contracts the instance can hold when the first command starts
MasterContract(inst) ==
    [exists |-> TRUE, Scope |-> Ptr(InstanceScope(inst) \o <<"/">>),
     DisplayName |-> Ptr("Built-in all-access subscription"),
     State |-> Ptr("active"), OwnerID |-> NilPtr, AllowTracing |-> Ptr(FALSE),
     CreatedDate |-> Ptr(Time("2024-01-01T00:00:00", 0)), StartDate |-> NilPtr,
     EndDate |-> NilPtr, ExpirationDate |-> NilPtr, NotificationDate |-> NilPtr,
     StateComment |-> NilPtr, PrimaryKey |-> Ptr("mk1"), SecondaryKey |-> Ptr("mk2")]

ProductContract(inst) ==
    [exists |-> TRUE, Scope |-> Ptr(InstanceScope(inst) \o <<"/", "products", "/", "p1">>),
     DisplayName |-> Ptr("Product key"),
     State |-> Ptr("active"), OwnerID |-> Ptr("/users/1"), AllowTracing |-> Ptr(TRUE),
     CreatedDate |-> Ptr(Time("2024-02-01T00:00:00", 1)),
     StartDate |-> Ptr(Time("2024-02-02T00:00:00", 0)),
     EndDate |-> NilPtr, ExpirationDate |-> NilPtr, NotificationDate |-> NilPtr,
     StateComment |-> NilPtr, PrimaryKey |-> Ptr("pk1"), SecondaryKey |-> Ptr("sk1")]

ApisContract(inst) ==
    [exists |-> TRUE, Scope |-> Ptr(InstanceScope(inst) \o <<"/", "apis">>),
     DisplayName |-> Ptr("All APIs key"),
     State |-> Ptr("suspended"), OwnerID |-> NilPtr, AllowTracing |-> Ptr(FALSE),
     CreatedDate |-> Ptr(Time("2024-03-01T00:00:00", 0)), StartDate |-> NilPtr,
     EndDate |-> NilPtr, ExpirationDate |-> NilPtr, NotificationDate |-> NilPtr,
     StateComment |-> Ptr("on hold"), PrimaryKey |-> Ptr("pk2"), SecondaryKey |-> Ptr("sk2")]

InitRemotes(inst) ==
    { [n \in {"master", "s1", "s2"} |->
          IF n = "master" THEN MasterContract(inst)
          ELSE IF n = "s1" THEN ProductContract(inst)
          ELSE (IF has2 THEN ApisContract(inst) ELSE Absent)]
      : has2 \in BOOLEAN }

\* SubscriptionClient.ListSecrets: the two keys of a subscription
ListSecrets(rem, sid) == [PrimaryKey |-> rem[sid].PrimaryKey, SecondaryKey |-> rem[sid].SecondaryKey]

\* projectContract that does not attach the secondary key
projectContract_NoSecondary(inst, name, c, secrets) ==
    [ID |-> EntityID(inst, name), Name |-> name,
     Type |-> "Microsoft.ApiManagement/service/subscriptions",
     Properties |->
        [OwnerID |-> deref(c.OwnerID),
         Scope |-> IF c.Scope.nil THEN <<>> ELSE c.Scope.v,
         DisplayName |-> deref(c.DisplayName),
         State |-> c.State.v,
         StateComment |-> deref(c.StateComment),
         AllowTracing |-> IF c.AllowTracing.nil THEN FALSE ELSE c.AllowTracing.v,
         CreatedDate |-> IF c.CreatedDate.nil THEN "" ELSE Format(c.CreatedDate.v),
         StartDate |-> IF c.StartDate.nil THEN "" ELSE Format(c.StartDate.v),
         EndDate |-> IF c.EndDate.nil THEN "" ELSE Format(c.EndDate.v),
         ExpirationDate |-> IF c.ExpirationDate.nil THEN "" ELSE Format(c.ExpirationDate.v),
         NotificationDate |-> IF c.NotificationDate.nil THEN "" ELSE Format(c.NotificationDate.v),
         PrimaryKey |-> deref(secrets.PrimaryKey),
         SecondaryKey |-> ""]]

\* client.go, lines 130-169: a listed contract and its secrets as a SubscriptionInfo
projectContract(inst, name, c, secrets) ==
    [ID |-> EntityID(inst, name), Name |-> name,
     Type |-> "Microsoft.ApiManagement/service/subscriptions",
     Properties |->
        [OwnerID |-> deref(c.OwnerID),
         Scope |-> IF c.Scope.nil THEN <<>> ELSE c.Scope.v,
         DisplayName |-> deref(c.DisplayName),
         State |-> c.State.v,
         StateComment |-> deref(c.StateComment),
         AllowTracing |-> IF c.AllowTracing.nil THEN FALSE ELSE c.AllowTracing.v,
         CreatedDate |-> IF c.CreatedDate.nil THEN "" ELSE Format(c.CreatedDate.v),
         StartDate |-> IF c.StartDate.nil THEN "" ELSE Format(c.StartDate.v),
         EndDate |-> IF c.EndDate.nil THEN "" ELSE Format(c.EndDate.v),
         ExpirationDate |-> IF c.ExpirationDate.nil THEN "" ELSE Format(c.ExpirationDate.v),
         NotificationDate |-> IF c.NotificationDate.nil THEN "" ELSE Format(c.NotificationDate.v),
         PrimaryKey |-> deref(secrets.PrimaryKey),
         SecondaryKey |-> deref(secrets.SecondaryKey)]]

\* the page the pager returns: a nil entry when the service sends one, then
\* the names of the subscriptions the instance holds
Page(rem, withNil) ==
    (IF withNil THEN <<"<nil>">> ELSE <<>>)
        \o SelectSeq(EntityNames, LAMBDA n : rem[n].exists)

\* client.go, lines 125-170: the loop over a page from position k; the call
\* of ListSecrets for the entity failAt fails
RECURSIVE listLoop(_, _, _, _, _, _, _)
listLoop(inst, rem, page, k, results, made, failAt) ==
    IF k > Len(page) THEN [subs |-> results, err |-> Nil, calls |-> made]
    ELSE IF page[k] = "<nil>" THEN listLoop(inst, rem, page, k + 1, results, made, failAt)
    ELSE LET name == page[k]
             call == [op |-> "ListSecrets", sid |-> name]
         IN  IF name = failAt
             THEN [subs |-> <<>>, err |-> Errorf("failed to get secrets for subscription"),
                   calls |-> Append(made, call)]
             ELSE listLoop(inst, rem, page, k + 1,
                           Append(results, projectContract(inst, name, rem[name],
                                                           ListSecrets(rem, name))),
                           Append(made, call), failAt)

\* Client.ListSubscriptions with no product filter: pageFails says that
\* NextPage fails
ListSubscriptions(inst, rem, withNil, pageFails, failAt) ==
    IF pageFails
    THEN [subs |-> <<>>, err |-> Errorf("failed to list subscriptions"),
          calls |-> <<[op |-> "List", sid |-> ""]>>]
    ELSE listLoop(inst, rem, Page(rem, withNil), 1, <<>>, <<[op |-> "List", sid |-> ""]>>, failAt)

\* client.go, lines 194-216: the parameters CreateSubscription sends
createParameters(scope, displayName, opts) ==
    [Scope |-> Ptr(scope),
     DisplayName |-> Ptr(displayName),
     PrimaryKey |-> IF opts.PrimaryKey # "" THEN Ptr(opts.PrimaryKey) ELSE NilPtr,
     SecondaryKey |-> IF opts.SecondaryKey # "" THEN Ptr(opts.SecondaryKey) ELSE NilPtr,
     OwnerID |-> IF opts.OwnerID # "" THEN Ptr(opts.OwnerID) ELSE NilPtr,
     AllowTracing |-> opts.AllowTracing,
     State |-> IF opts.State # "" THEN Ptr(opts.State) ELSE NilPtr]

\* CreateOrUpdate that makes new keys whenever none is sent
CreateOrUpdate_RegeneratesKeys(old, params) ==
    LET keep(field, default) ==
            IF ~params[field].nil THEN params[field]
            ELSE IF old.exists THEN old[field] ELSE default
        kept(field, default) == IF old.exists THEN old[field] ELSE default
        fresh(field) ==
            IF ~params[field].nil THEN params[field]
            ELSE IF old.exists /\ old[field] = Ptr("generated1") THEN Ptr("generated2")
            ELSE Ptr("generated1")
    IN  [exists |-> TRUE,
         Scope |-> params.Scope,
         DisplayName |-> params.DisplayName,
         State |-> keep("State", Ptr("active")),
         OwnerID |-> keep("OwnerID", NilPtr),
         AllowTracing |-> keep("AllowTracing", Ptr(FALSE)),
         PrimaryKey |-> fresh("PrimaryKey"),
         SecondaryKey |-> fresh("SecondaryKey"),
         CreatedDate |-> kept("CreatedDate", Ptr(Time("2026-01-01T00:00:00", 1))),
         StartDate |-> kept("StartDate", NilPtr),
         EndDate |-> kept("EndDate", NilPtr),
         ExpirationDate |-> kept("ExpirationDate", NilPtr),
         NotificationDate |-> kept("NotificationDate", NilPtr),
         StateComment |-> kept("StateComment", NilPtr)]

\* SubscriptionClient.CreateOrUpdate, when it succeeds: the contract the
\* instance holds afterwards.  A parameter that is not sent keeps the value
\* of the subscription that exists, and gets the service's default otherwise.
CreateOrUpdate(old, params) ==
    LET keep(field, default) ==
            IF ~params[field].nil THEN params[field]
            ELSE IF old.exists THEN old[field] ELSE default
        kept(field, default) == IF old.exists THEN old[field] ELSE default
    IN  [exists |-> TRUE,
         Scope |-> params.Scope,
         DisplayName |-> params.DisplayName,
         State |-> keep("State", Ptr("active")),
         OwnerID |-> keep("OwnerID", NilPtr),
         AllowTracing |-> keep("AllowTracing", Ptr(FALSE)),
         PrimaryKey |-> keep("PrimaryKey", Ptr("generated1")),
         SecondaryKey |-> keep("SecondaryKey", Ptr("generated2")),
         CreatedDate |-> kept("CreatedDate", Ptr(Time("2026-01-01T00:00:00", 1))),
         StartDate |-> kept("StartDate", NilPtr),
         EndDate |-> kept("EndDate", NilPtr),
         ExpirationDate |-> kept("ExpirationDate", NilPtr),
         NotificationDate |-> kept("NotificationDate", NilPtr),
         StateComment |-> kept("StateComment", NilPtr)]

(***************************************************************************)
(* The backup files a user hands to restore: taken from another instance.  *)
(***************************************************************************)
MaxInput == 2

\* a service that drops every other subscription when it writes one
CreateOrUpdateAt_DropsOthers(rem, sid, params) ==
    [n \in DOMAIN rem |-> IF n = sid THEN CreateOrUpdate(rem[n], params) ELSE Absent]

\* client.go, CreateSubscription, line 220: what a successful
\* subClient.CreateOrUpdate for the entity sid makes of the instance
CreateOrUpdateAt(rem, sid, params) == [rem EXCEPT ![sid] = CreateOrUpdate(rem[sid], params)]

OtherInstance == [subscriptionID |-> <<"sub0">>, resourceGroup |-> <<"rg0">>, apimName |-> <<"apim0">>]

UserRecords ==
    { SubscriptionInfo(EntityID(OtherInstance, "s1"), "s1",
          [Props0 EXCEPT !.Scope = InstanceScope(OtherInstance) \o <<"/", "products", "/", "p1">>,
                         !.OwnerID = "/users/1", !.AllowTracing = TRUE]),
      SubscriptionInfo(EntityID(OtherInstance, "s2"), "s2",
          [Props0 EXCEPT !.Scope = <<"/", "apis", "/", "a1">>, !.DisplayName = "Key Two",
                         !.State = "suspended", !.PrimaryKey = "pk2", !.SecondaryKey = "sk2"]),
      SubscriptionInfo(EntityID(OtherInstance, "master"), "master",
          [Props0 EXCEPT !.Scope = InstanceScope(OtherInstance) \o <<"/">>,
                         !.DisplayName = "Built-in all-access subscription",
                         !.PrimaryKey = "mk8", !.SecondaryKey = "mk9"]),
      SubscriptionInfo(EntityID(OtherInstance, "s1"), "s1",
          [Props0 EXCEPT !.Scope = InstanceScope(OtherInstance),
                         !.State = "", !.PrimaryKey = "", !.SecondaryKey = ""]) }

Instances ==
    { [subscriptionID |-> <<"sub1">>, resourceGroup |-> <<"rg1">>, apimName |-> n]
      : n \in {<<"apim1">>, <<"service">>} }

(***************************************************************************)
(* restore.go (the variant that rebuilds any scope suffix) and backup.go   *)
(***************************************************************************)
\* restoreOptions without the owner
restoreOptions_NoOwner(sub) ==
    [PrimaryKey |-> sub.Properties.PrimaryKey,
     SecondaryKey |-> sub.Properties.SecondaryKey,
     State |-> sub.Properties.State,
     OwnerID |-> "",
     AllowTracing |-> Ptr(sub.Properties.AllowTracing)]

\* runRestore, lines 316-325: the options of a record
restoreOptions(sub) ==
    [PrimaryKey |-> sub.Properties.PrimaryKey,
     SecondaryKey |-> sub.Properties.SecondaryKey,
     State |-> sub.Properties.State,
     OwnerID |-> IF sub.Properties.OwnerID # "" THEN sub.Properties.OwnerID ELSE "",
     AllowTracing |-> Ptr(sub.Properties.AllowTracing)]

\* runRestore, lines 313-314: the scope sent for a record
restoreScope(inst, sub) ==
    buildScopeFromSuffix(inst.subscriptionID, inst.resourceGroup, inst.apimName,
                         extractScopeSuffix(sub.Properties.Scope))

\* restoreResult that lets one failure pass
restoreResult_MoreThanOne(nfailed) ==
    IF nfailed > 1 THEN ErrorfN("subscription(s) failed to restore", nfailed) ELSE Nil

\* runRestore, lines 351-354: what it returns after the summary line
restoreResult(nfailed) ==
    IF nfailed > 0 THEN ErrorfN("subscription(s) failed to restore", nfailed) ELSE Nil

\* deleteResult that lets one failure pass
deleteResult_MoreThanOne(nfailed) ==
    IF nfailed > 1 THEN ErrorfN("subscription(s) failed to delete", nfailed) ELSE Nil

\* delete.go, runDelete, lines 168-170: what it returns after the summary line
deleteResult(nfailed) ==
    IF nfailed > 0 THEN ErrorfN("subscription(s) failed to delete", nfailed) ELSE Nil

\* a loop that goes through the records from the last to the first
rangeAt_Backwards(list, i) == list[Len(list) + 1 - i]

\* runRestore, line 307, and runDelete, line 134: `for _, sub := range subs`,
\* the record of the i-th pass of the loop
rangeAt(list, i) == list[i]

\* a skip test that lets every record through
skipBuiltIn_Never(all, sid) == FALSE

\* runDelete, line 138: the record is built-in and --all is not set
skipBuiltIn(all, sid) == ~all /\ sid = "master"

\* SubscriptionClient.Delete, when it succeeds
Delete(rem, sid) == [rem EXCEPT ![sid] = Absent]

LoopIdle == subs = <<>> /\ ri = 0 /\ failed = 0

RestoreIdle ==
    /\ restoreDryRun = FALSE /\ restored = 0
    /\ restoreOut = <<>> /\ restoreErr = NotReturned

BackupIdle ==
    /\ listErr = NotReturned /\ wrote = FALSE /\ backupOut = <<>> /\ backupErr = NotReturned

DeleteIdle ==
    /\ deleteAll = FALSE /\ deleteDryRun = FALSE /\ deleted = 0 /\ skipped = 0
    /\ deleteOut = <<>> /\ deleteErr = NotReturned

\* a command starts: what the commands before it left is gone
ForgetRestore ==
    /\ restoreDryRun' = FALSE /\ restored' = 0
    /\ restoreOut' = <<>> /\ restoreErr' = NotReturned

ForgetBackup ==
    /\ listErr' = NotReturned /\ wrote' = FALSE /\ backupOut' = <<>> /\ backupErr' = NotReturned

ForgetDelete ==
    /\ deleteAll' = FALSE /\ deleteDryRun' = FALSE /\ deleted' = 0 /\ skipped' = 0
    /\ deleteOut' = <<>> /\ deleteErr' = NotReturned

ForgetLoop == subs' = <<>> /\ ri' = 0 /\ failed' = 0

OpsInit ==
    /\ apim \in Instances
    /\ remote \in InitRemotes(apim)
    /\ input \in {File(f) : f \in SeqsUpTo(UserRecords, MaxInput)} \cup {Unreadable}
    /\ fromBackup = FALSE
    /\ origin = remote
    /\ afterRestore = FALSE
    /\ pc = "idle"
    /\ calls = <<>>
    /\ remote0 = remote
    /\ LoopIdle
    /\ RestoreIdle
    /\ BackupIdle
    /\ DeleteIdle

\* a restore that goes into the loop although azure.NewClient failed
restoreSetup_AuthUnchecked(file, authOk) ==
    IF ~file.readable
    THEN [err |-> Errorf("failed to read or parse input file"), subs |-> <<>>, pc |-> "restoreDone"]
    ELSE IF Len(file.subs) = 0
    THEN [err |-> Nil, subs |-> file.subs, pc |-> "restoreDone"]
    ELSE IF ~authOk
    THEN [err |-> Errorf("authentication failed"), subs |-> file.subs, pc |-> "restore"]
    ELSE [err |-> NotReturned, subs |-> file.subs, pc |-> "restore"]

\* runRestore, lines 275-299: os.ReadFile and json.Unmarshal, the test of an
\* empty file, azure.NewClient.  err is what runRestore returns at once, or
\* NotReturned when it goes on to the loop.
restoreSetup(file, authOk) ==
    IF ~file.readable
    THEN [err |-> Errorf("failed to read or parse input file"), subs |-> <<>>, pc |-> "restoreDone"]
    ELSE IF Len(file.subs) = 0
    THEN [err |-> Nil, subs |-> file.subs, pc |-> "restoreDone"]
    ELSE IF ~authOk
    THEN [err |-> Errorf("authentication failed"), subs |-> file.subs, pc |-> "restoreDone"]
    ELSE [err |-> NotReturned, subs |-> file.subs, pc |-> "restore"]

\* the command that ended last is a restore outside dry-run that read the
\* file, went through its records and reported each of them as restored
RestoredAll ==
    /\ pc = "restoreDone"
    /\ ~restoreDryRun
    /\ input.readable
    /\ Len(subs) > 0
    /\ ri > Len(subs)
    /\ restored = Len(subs)
    /\ failed = 0

\* no command is running: the next one can start
CanStart == pc \in {"idle", "restoreDone", "backupDone", "deleteDone"}

\* runRestore, lines 262-306: read the file, authenticate
RestoreStart ==
    /\ CanStart
    /\ \E dryRun \in BOOLEAN, authOk \in BOOLEAN :
        /\ restoreDryRun' = dryRun
        /\ LET setup == restoreSetup(input, authOk)
           IN  /\ restoreErr' = setup.err
               /\ subs' = setup.subs
               /\ pc' = setup.pc
    /\ ri' = 1
    /\ restored' = 0
    /\ failed' = 0
    /\ restoreOut' = <<>>
    /\ calls' = <<>>
    /\ remote0' = remote
    /\ afterRestore' = RestoredAll
    /\ ForgetBackup
    /\ ForgetDelete
    /\ UNCHANGED <<apim, remote, input, fromBackup, origin>>
    /\ UNCHANGED notOps

\* runRestore, lines 307-347, with Client.CreateSubscription: one pass of the
\* loop.  createOk and secretsOk say whether CreateOrUpdate and the
\* ListSecrets after it succeed.
RestoreRecord ==
    /\ pc = "restore"
    /\ ri <= Len(subs)
    /\ LET sub == rangeAt(subs, ri)
           sid == sub.Name
           displayName == sub.Properties.DisplayName
           scope == restoreScope(apim, sub)
           opts == restoreOptions(sub)
           params == createParameters(scope, displayName, opts)
           put == [op |-> "CreateOrUpdate", sid |-> sid, params |-> params, i |-> ri]
           get == [op |-> "ListSecrets", sid |-> sid, params |-> params, i |-> ri]
       IN  IF restoreDryRun
           THEN /\ restoreOut' = Append(restoreOut, [tag |-> "DRY-RUN", sid |-> sid])
                /\ restored' = restored + 1
                /\ UNCHANGED <<failed, remote, calls>>
           ELSE \E createOk \in BOOLEAN, secretsOk \in BOOLEAN :
                IF ~createOk
                THEN /\ calls' = Append(calls, put)
                     /\ restoreOut' = Append(restoreOut, [tag |-> "FAIL", sid |-> sid])
                     /\ failed' = failed + 1
                     /\ UNCHANGED <<restored, remote>>
                ELSE /\ remote' = CreateOrUpdateAt(remote, sid, params)
                     /\ calls' = calls \o <<put, get>>
                     /\ IF ~secretsOk
                        THEN /\ restoreOut' = Append(restoreOut, [tag |-> "FAIL", sid |-> sid])
                             /\ failed' = failed + 1
                             /\ UNCHANGED restored
                        ELSE /\ restoreOut' = Append(restoreOut, [tag |-> "OK", sid |-> sid])
                             /\ restored' = restored + 1
                             /\ UNCHANGED failed
    /\ ri' = ri + 1
    /\ UNCHANGED <<apim, input, fromBackup, origin, afterRestore, pc, remote0, restoreDryRun, subs, restoreErr>>
    /\ UNCHANGED <<backupVars, deleteVars>>
    /\ UNCHANGED notOps

\* runRestore, lines 349-354: the summary line and the result
RestoreReturn ==
    /\ pc = "restore"
    /\ ri > Len(subs)
    /\ restoreErr' = restoreResult(failed)
    /\ pc' = "restoreDone"
    /\ UNCHANGED <<apim, remote, input, fromBackup, origin, afterRestore, calls, remote0>>
    /\ UNCHANGED <<loopVars, restoreDryRun, restored, restoreOut>>
    /\ UNCHANGED <<backupVars, deleteVars>>
    /\ UNCHANGED notOps

\* what the service does with the listing of one run: NextPage fails, or
\* ListSecrets fails for one entity, or nothing fails and the page holds a
\* nil entry or not
ListOutcomes ==
    {[pageFails |-> TRUE, withNil |-> FALSE, failAt |-> "<none>"]}
        \cup {[pageFails |-> FALSE, withNil |-> TRUE, failAt |-> n] : n \in {"master", "s1", "s2"}}
        \cup {[pageFails |-> FALSE, withNil |-> w, failAt |-> "<none>"] : w \in BOOLEAN}

\* runBackup, lines 54-72: the backup directory and the client
BackupSetupFails ==
    /\ CanStart
    /\ \E dirOk \in BOOLEAN :
        backupErr' = IF ~dirOk THEN Errorf("failed to create backup directory")
                     ELSE Errorf("authentication failed")
    /\ backupOut' = <<>>
    /\ listErr' = NotReturned
    /\ calls' = <<>>
    /\ wrote' = FALSE
    /\ pc' = "backupDone"
    /\ remote0' = remote
    /\ afterRestore' = FALSE
    /\ ForgetLoop
    /\ ForgetRestore
    /\ ForgetDelete
    /\ UNCHANGED <<apim, remote, input, fromBackup, origin>>
    /\ UNCHANGED notOps

\* runBackup, lines 54-115, once the directory and the client exist: the
\* listing, the file and the result.  writeOk says whether os.MkdirAll and
\* os.WriteFile succeed.
Backup ==
    /\ CanStart
    /\ \E o \in ListOutcomes, writeOk \in BOOLEAN :
        LET listed == ListSubscriptions(apim, remote, o.withNil, o.pageFails, o.failAt)
            found == [tag |-> "Found", n |-> Len(listed.subs)]
        IN  /\ listErr' = listed.err
            /\ calls' = listed.calls
            /\ IF ~writeOk
               THEN /\ backupErr' = Errorf("failed to write backup file")
                    /\ backupOut' = <<found>>
                    /\ wrote' = FALSE
                    /\ UNCHANGED <<input, fromBackup, origin>>
               ELSE /\ backupErr' = Nil
                    /\ backupOut' = <<found, [tag |-> "saved", n |-> 0],
                                      [tag |-> "completed successfully", n |-> 0]>>
                    /\ wrote' = TRUE
                    /\ input' = File(listed.subs)
                    /\ fromBackup' = (listed.err = Nil)
                    /\ origin' = remote
    /\ pc' = "backupDone"
    /\ remote0' = remote
    /\ afterRestore' = FALSE
    /\ ForgetLoop
    /\ ForgetRestore
    /\ ForgetDelete
    /\ UNCHANGED <<apim, remote>>
    /\ UNCHANGED notOps

\* delete.go, runDelete, lines 96-132: the flags, the client, the listing
DeleteStart ==
    /\ CanStart
    /\ \E all \in BOOLEAN, dryRun \in BOOLEAN, authOk \in BOOLEAN :
        \E o \in IF authOk THEN ListOutcomes ELSE {CHOOSE x \in ListOutcomes : x.pageFails} :
        LET listed == ListSubscriptions(apim, remote, o.withNil, o.pageFails, o.failAt)
        IN  /\ deleteAll' = all
            /\ deleteDryRun' = dryRun
            /\ IF ~authOk
               THEN /\ deleteErr' = Errorf("authentication failed")
                    /\ calls' = <<>>
                    /\ subs' = <<>>
                    /\ pc' = "deleteDone"
               ELSE IF listed.err # Nil
               THEN /\ deleteErr' = Errorf("failed to list subscriptions")
                    /\ calls' = listed.calls
                    /\ subs' = <<>>
                    /\ pc' = "deleteDone"
               ELSE IF Len(listed.subs) = 0
               THEN /\ deleteErr' = Nil
                    /\ calls' = listed.calls
                    /\ subs' = listed.subs
                    /\ pc' = "deleteDone"
               ELSE /\ deleteErr' = NotReturned
                    /\ calls' = listed.calls
                    /\ subs' = listed.subs
                    /\ pc' = "delete"
    /\ ri' = 1
    /\ deleted' = 0
    /\ skipped' = 0
    /\ failed' = 0
    /\ deleteOut' = <<>>
    /\ remote0' = remote
    /\ afterRestore' = FALSE
    /\ ForgetRestore
    /\ ForgetBackup
    /\ UNCHANGED <<apim, remote, input, fromBackup, origin>>
    /\ UNCHANGED notOps

\* the pass of the loop of runDelete without the test of --dry-run
DeleteRecord_IgnoresDryRun ==
    /\ pc = "delete"
    /\ ri <= Len(subs)
    /\ LET sub == rangeAt(subs, ri)
           sid == sub.Name
           call == [op |-> "Delete", sid |-> sid, i |-> ri]
       IN  IF skipBuiltIn(deleteAll, sid)
           THEN /\ deleteOut' = Append(deleteOut, [tag |-> "SKIP", sid |-> sid])
                /\ skipped' = skipped + 1
                /\ UNCHANGED <<deleted, failed, remote, calls>>
           ELSE \E deleteOk \in BOOLEAN :
                /\ calls' = Append(calls, call)
                /\ IF ~deleteOk
                   THEN /\ deleteOut' = Append(deleteOut, [tag |-> "FAIL", sid |-> sid])
                        /\ failed' = failed + 1
                        /\ UNCHANGED <<deleted, skipped, remote>>
                   ELSE /\ remote' = Delete(remote, sid)
                        /\ deleteOut' = Append(deleteOut, [tag |-> "OK", sid |-> sid])
                        /\ deleted' = deleted + 1
                        /\ UNCHANGED <<skipped, failed>>
    /\ ri' = ri + 1
    /\ UNCHANGED <<apim, input, fromBackup, origin, afterRestore, pc, remote0, subs>>
    /\ UNCHANGED <<deleteAll, deleteDryRun, deleteErr>>
    /\ UNCHANGED <<restoreVars, backupVars>>
    /\ UNCHANGED notOps

\* runDelete, lines 134-165, with Client.DeleteSubscription: one pass of the loop
DeleteRecord ==
    /\ pc = "delete"
    /\ ri <= Len(subs)
    /\ LET sub == rangeAt(subs, ri)
           sid == sub.Name
           call == [op |-> "Delete", sid |-> sid, i |-> ri]
       IN  IF skipBuiltIn(deleteAll, sid)
           THEN /\ deleteOut' = Append(deleteOut, [tag |-> "SKIP", sid |-> sid])
                /\ skipped' = skipped + 1
                /\ UNCHANGED <<deleted, failed, remote, calls>>
           ELSE IF deleteDryRun
           THEN /\ deleteOut' = Append(deleteOut, [tag |-> "DRY-RUN", sid |-> sid])
                /\ deleted' = deleted + 1
                /\ UNCHANGED <<skipped, failed, remote, calls>>
           ELSE \E deleteOk \in BOOLEAN :
                /\ calls' = Append(calls, call)
                /\ IF ~deleteOk
                   THEN /\ deleteOut' = Append(deleteOut, [tag |-> "FAIL", sid |-> sid])
                        /\ failed' = failed + 1
                        /\ UNCHANGED <<deleted, skipped, remote>>
                   ELSE /\ remote' = Delete(remote, sid)
                        /\ deleteOut' = Append(deleteOut, [tag |-> "OK", sid |-> sid])
                        /\ deleted' = deleted + 1
                        /\ UNCHANGED <<skipped, failed>>
    /\ ri' = ri + 1
    /\ UNCHANGED <<apim, input, fromBackup, origin, afterRestore, pc, remote0, subs>>
    /\ UNCHANGED <<deleteAll, deleteDryRun, deleteErr>>
    /\ UNCHANGED <<restoreVars, backupVars>>
    /\ UNCHANGED notOps

\* runDelete, lines 167-171: the summary line and the result
DeleteReturn ==
    /\ pc = "delete"
    /\ ri > Len(subs)
    /\ deleteErr' = deleteResult(failed)
    /\ pc' = "deleteDone"
    /\ UNCHANGED <<apim, remote, input, fromBackup, origin, afterRestore, calls, remote0>>
    /\ UNCHANGED <<loopVars, deleteAll, deleteDryRun, deleted, skipped, deleteOut>>
    /\ UNCHANGED <<restoreVars, backupVars>>
    /\ UNCHANGED notOps

(***************************************************************************)
(* restore.go (the variant that rebuilds the scope of a product)           *)
(***************************************************************************)
productsMarker == <<"/", "products", "/">>

\* extractProductID that takes a scope without the marker for the product
extractProductID_WholeScope(scope) ==
    LET idx == LastIndex(scope, productsMarker)
    IN  IF idx = -1 THEN scope ELSE SliceFrom(scope, idx + Len(productsMarker))

\* restore.go (product variant), extractProductID
extractProductID(scope) ==
    LET idx == LastIndex(scope, productsMarker)
    IN  IF idx = -1 THEN <<>> ELSE SliceFrom(scope, idx + Len(productsMarker))

\* restore.go (product variant), buildScope
buildScope(azureSubscriptionID, resourceGroup, apimName, productID) ==
    scopeBase(azureSubscriptionID, resourceGroup, apimName) \o productsMarker \o productID

\* restore.go (product variant), runRestore, lines 471-511, with
\* Client.CreateSubscription: one pass of the loop
RestoreRecordProduct ==
    /\ pc = "restore"
    /\ ri <= Len(subs)
    /\ LET sub == rangeAt(subs, ri)
           sid == sub.Name
           displayName == sub.Properties.DisplayName
           productID == extractProductID(sub.Properties.Scope)
           scope == buildScope(apim.subscriptionID, apim.resourceGroup, apim.apimName, productID)
           opts == restoreOptions(sub)
           params == createParameters(scope, displayName, opts)
           put == [op |-> "CreateOrUpdate", sid |-> sid, params |-> params, i |-> ri]
           get == [op |-> "ListSecrets", sid |-> sid, params |-> params, i |-> ri]
       IN  IF productID = <<>>
           THEN /\ restoreOut' = Append(restoreOut, [tag |-> "SKIP", sid |-> sid])
                /\ failed' = failed + 1
                /\ UNCHANGED <<restored, remote, calls>>
           ELSE IF restoreDryRun
           THEN /\ restoreOut' = Append(restoreOut, [tag |-> "DRY-RUN", sid |-> sid])
                /\ restored' = restored + 1
                /\ UNCHANGED <<failed, remote, calls>>
           ELSE \E createOk \in BOOLEAN, secretsOk \in BOOLEAN :
                IF ~createOk
                THEN /\ calls' = Append(calls, put)
                     /\ restoreOut' = Append(restoreOut, [tag |-> "FAIL", sid |-> sid])
                     /\ failed' = failed + 1
                     /\ UNCHANGED <<restored, remote>>
                ELSE /\ remote' = CreateOrUpdateAt(remote, sid, params)
                     /\ calls' = calls \o <<put, get>>
                     /\ IF ~secretsOk
                        THEN /\ restoreOut' = Append(restoreOut, [tag |-> "FAIL", sid |-> sid])
                             /\ failed' = failed + 1
                             /\ UNCHANGED restored
                        ELSE /\ restoreOut' = Append(restoreOut, [tag |-> "OK", sid |-> sid])
                             /\ restored' = restored + 1
                             /\ UNCHANGED failed
    /\ ri' = ri + 1
    /\ UNCHANGED <<apim, input, fromBackup, origin, afterRestore, pc, remote0, restoreDryRun, subs, restoreErr>>
    /\ UNCHANGED <<backupVars, deleteVars>>
    /\ UNCHANGED notOps

(***************************************************************************)
(* Properties of the scope functions.                                      *)
(***************************************************************************)
EndsWith(s, t) == Len(s) >= Len(t) /\ SubSeq(s, Len(s) - Len(t) + 1, Len(s)) = t

IsName(s) == s # <<>> /\ \A i \in 1..Len(s) : s[i] # "/"

\* s ends in "/service/<instance>"
EndsInInstance(s) ==
    \E n \in 1..Len(s) :
        /\ IsName(SubSeq(s, Len(s) - n + 1, Len(s)))
        /\ EndsWith(SubSeq(s, 1, Len(s) - n), marker)

\* s ends in "/service/<instance>" or in "/service/<instance>/"
IsInstanceScope(s) ==
    \/ EndsInInstance(s)
    \/ s # <<>> /\ s[Len(s)] = "/" /\ EndsInInstance(SubSeq(s, 1, Len(s) - 1))

\* C1: extractScopeSuffix(buildScopeFromSuffix(sub, rg, inst, suffix)) = suffix
\* for every target and every non-empty suffix that holds no "/service/".
C1_RoundTrip ==
    (spc = "roundtrip" /\ args.suffix # <<>> /\ LastIndex(args.suffix, marker) = -1)
        => extracted = args.suffix

\* C10: extractScopeSuffix returns the empty string, and does not panic, for
\* every scope that ends in "/service/<instance>" or "/service/<instance>/".
C10_InstanceScopeEmpty ==
    (spc = "extracted" /\ IsInstanceScope(args.scope)) => extracted = <<>>

\* an instance-level scope with a trailing slash, after a prefix
C10_Witness ==
    /\ spc = "extracted"
    /\ IsInstanceScope(args.scope)
    /\ args.scope[Len(args.scope)] = "/"
    /\ LastIndex(args.scope, marker) > 0
    /\ extracted = <<>>

\* s holds t
Contains(s, t) == \E i \in 0..(Len(s) - Len(t)) : SubSeq(s, i + 1, i + Len(t)) = t

\* "/subscriptions/<id>/resourceGroups/<rg>/providers/Microsoft.ApiManagement/service/<instance>"
FixedPrefix(id, rg, instance) ==
    <<"/", "subscriptions", "/">> \o id \o <<"/", "resourceGroups", "/">> \o rg
        \o <<"/", "providers", "/", "Microsoft.ApiManagement", "/", "service", "/">> \o instance

\* C11: for a scope that does not hold "/service/", extractScopeSuffix returns
\* the empty string and does not panic, and the scope restore builds from it
\* for the request is the bare scope of the target instance.
C11_NoMarker ==
    (args.mode = "extract" /\ ~Contains(args.scope, marker)) =>
        /\ spc \in {"extracted", "rebuilt"} => extracted = <<>>
        /\ spc = "rebuilt" =>
              built = FixedPrefix(args.azureSubscriptionID, args.resourceGroup, args.apimName)

\* a scope that names "service" and a product without the marker
C11_Witness ==
    /\ spc = "rebuilt"
    /\ ~Contains(args.scope, marker)
    /\ Contains(args.scope, <<"service", "/", "products", "/", "p1">>)
    /\ extracted = <<>>
    /\ built = FixedPrefix(<<"sub1">>, <<"rg1">>, <<"apim1">>)

\* what is left of s after one trailing "/" is taken off
StripOne(s) == IF s # <<>> /\ s[Len(s)] = "/" THEN SubSeq(s, 1, Len(s) - 1) ELSE s

\* the positions (from 0) at which s holds t
Occurrences(s, t) == {i \in 0..(Len(s) - Len(t)) : SubSeq(s, i + 1, i + Len(t)) = t}

\* C12: for a scope that holds "/service/", extractScopeSuffix takes what
\* follows the last "/service/", skips the instance name, and returns what
\* follows the next "/" less exactly one trailing "/" (the empty string when
\* no "/" follows the instance name).
C12_StripsOne ==
    (args.mode = "extract" /\ spc \in {"extracted", "rebuilt"} /\ Contains(args.scope, marker)) =>
        LET last == CHOOSE i \in Occurrences(args.scope, marker) :
                        \A j \in Occurrences(args.scope, marker) : j <= i
            rest == SubSeq(args.scope, last + Len(marker) + 1, Len(args.scope))
            slashes == {i \in 1..Len(rest) : rest[i] = "/"}
        IN  IF slashes = {} THEN extracted = <<>>
            ELSE LET first == CHOOSE i \in slashes : \A j \in slashes : i <= j
                 IN  extracted = StripOne(SubSeq(rest, first + 1, Len(rest)))

\* C13: buildScopeFromSuffix returns the fixed prefix of the target when the
\* suffix is empty, and the prefix, "/" and the suffix when it is not.
C13_BuildScope ==
    (args.mode = "build" /\ spc \in {"built", "roundtrip"}) =>
        LET prefix == FixedPrefix(args.azureSubscriptionID, args.resourceGroup, args.apimName)
        IN  /\ Len(built) >= Len(prefix)
            /\ SubSeq(built, 1, Len(prefix)) = prefix
            /\ args.suffix = <<>> => built = prefix
            /\ args.suffix # <<>> => built = prefix \o <<"/">> \o args.suffix

\* a product suffix under an instance of another name than the usual
C13_Witness ==
    /\ spc = "built"
    /\ args.suffix = <<"products", "/", "p1">>
    /\ args.apimName = <<"service">>
    /\ built[Len(built)] = "p1"
    /\ Len(built) = Len(FixedPrefix(args.azureSubscriptionID, args.resourceGroup, args.apimName)) + 4

\* a backup scope of the usual kind: of an instance that is not named service
ReferenceSource ==
    [azureSubscriptionID |-> <<"sub1">>, resourceGroup |-> <<"rg1">>, apimName |-> <<"apim1">>]

\* C21: the scope restore sends is a function of the target and of the suffix
\* of the backed-up scope alone: a backup scope built from any source
\* subscription, resource group and instance and a suffix gives the target
\* scope that the backup scope of ReferenceSource with that suffix gives.
C21_EnvironmentAgnostic ==
    spc = "restored" =>
        rebuilt = buildScopeFromSuffix(
                      RestoreTarget.azureSubscriptionID, RestoreTarget.resourceGroup,
                      RestoreTarget.apimName,
                      extractScopeSuffix(
                          buildScopeFromSuffix(ReferenceSource.azureSubscriptionID,
                                               ReferenceSource.resourceGroup,
                                               ReferenceSource.apimName, args.suffix)))

\* C29: for every scope s and every target, extractScopeSuffix of the scope
\* built for the target from extractScopeSuffix(s) is extractScopeSuffix(s);
\* the suffix extracted holds no "/service/", does not begin with "service/"
\* and does not end in "/".
C29_Stable ==
    /\ (args.mode = "extract" /\ spc \in {"extracted", "rebuilt", "normalised"}) =>
          /\ ~Contains(extracted, marker)
          /\ ~(Len(extracted) >= 2 /\ SubSeq(extracted, 1, 2) = <<"service", "/">>)
          /\ ~(extracted # <<>> /\ extracted[Len(extracted)] = "/")
    /\ spc = "normalised" => reextracted = extracted

(***************************************************************************)
(* Properties of compare.                                                  *)
(***************************************************************************)
\* the attributes compare tracks: every property but createdDate
Tracked ==
    {"DisplayName", "Scope", "State", "OwnerID", "PrimaryKey", "SecondaryKey",
     "AllowTracing", "StartDate", "EndDate", "ExpirationDate", "NotificationDate",
     "StateComment"}

SameKeys(a, b) ==
    /\ a.Properties.PrimaryKey = b.Properties.PrimaryKey
    /\ a.Properties.SecondaryKey = b.Properties.SecondaryKey

SameTracked(a, b) == \A f \in Tracked : a.Properties[f] = b.Properties[f]

\* the records of a file that are compared: those not named master
Compared(file) == {file.subs[i] : i \in {k \in 1..Len(file.subs) : file.subs[k].Name # "master"}}
NumCompared(file) == Cardinality({k \in 1..Len(file.subs) : file.subs[k].Name # "master"})

\* the lines printed for the records of A
RecordLines == SelectSeq(cmpOut, LAMBDA l : l.tag # "SUMMARY")
CountTag(tag) == Len(SelectSeq(cmpOut, LAMBDA l : l.tag = tag))
SummaryPrinted == \E k \in 1..Len(cmpOut) : cmpOut[k].tag = "SUMMARY"
Comparing == cpc = "loop" \/ (cpc = "done" /\ fileA.readable /\ fileB.readable)

\* C2: compare puts every non-master record of A into exactly one of matched,
\* mismatched and missing: the three counters add up to the number of records
\* classified so far and, after the loop, to the number of non-master records
\* of A; a record is matched only if a compared record of B has both keys and
\* all tracked attributes equal, mismatched only if one has both keys equal and
\* a tracked attribute that differs, missing only if none shares both keys.
C2_Classification ==
    Comparing =>
        /\ Len(RecordLines) = ci - 1
        /\ \A k \in 1..Len(RecordLines) : RecordLines[k].a = k
        /\ matched = CountTag("OK")
        /\ mismatch = CountTag("DIFF")
        /\ missing = CountTag("MISS")
        /\ matched + mismatch + missing = Len(RecordLines)
        /\ cpc = "done" => matched + mismatch + missing = NumCompared(fileA)
        /\ \A k \in 1..Len(RecordLines) :
              LET l == RecordLines[k]
                  a == subsA[l.a]
              IN  /\ a \in Compared(fileA)
                  /\ l.tag \in {"OK", "DIFF", "MISS"}
                  /\ l.tag = "OK" =>
                        \E b \in Compared(fileB) : SameKeys(a, b) /\ SameTracked(a, b)
                  /\ l.tag = "DIFF" =>
                        \E b \in Compared(fileB) : SameKeys(a, b) /\ ~SameTracked(a, b)
                  /\ l.tag = "MISS" =>
                        \A b \in Compared(fileB) : ~SameKeys(a, b)

\* a finished comparison of two records of A, one found and one not
C2_Witness ==
    /\ cpc = "done"
    /\ NumCompared(fileA) = 2
    /\ Len(fileA.subs) = 2
    /\ matched = 1
    /\ missing = 1

\* C3: compare joins on the pair (primaryKey, secondaryKey) alone: the record
\* of B a record of A is paired with is the first compared record of B with
\* both keys equal, whatever the names and ids; a record of B that differs in
\* either key is never its partner, also when it has the same name and id,
\* and the record of A is missing when no compared record of B has both keys.
C3_JoinOnKeys ==
    Comparing =>
        \A k \in 1..Len(RecordLines) :
            LET l == RecordLines[k]
                a == subsA[l.a]
            IN  /\ l.b # 0 =>
                    /\ l.b \in 1..Len(subsB)
                    /\ SameKeys(a, subsB[l.b])
                    /\ \A j \in 1..(l.b - 1) : ~SameKeys(a, subsB[j])
                /\ l.b = 0 <=> l.tag = "MISS"
                /\ l.tag = "MISS" <=> \A j \in 1..Len(subsB) : ~SameKeys(a, subsB[j])
                /\ \A j \in 1..Len(subsB) :
                      (subsB[j].Name = a.Name /\ subsB[j].ID = a.ID /\ ~SameKeys(a, subsB[j]))
                          => l.b # j

\* one record of A paired with a record of another name and id, and one
\* missing although B holds a record of its name and id
C3_Witness ==
    /\ cpc = "done"
    /\ \E k \in 1..Len(RecordLines) :
          LET l == RecordLines[k]
          IN  /\ l.b # 0
              /\ subsB[l.b].Name # subsA[l.a].Name
              /\ subsB[l.b].ID # subsA[l.a].ID
    /\ \E k \in 1..Len(RecordLines) :
          LET l == RecordLines[k]
          IN  /\ l.tag = "MISS"
              /\ \E j \in 1..Len(subsB) :
                    subsB[j].Name = subsA[l.a].Name /\ subsB[j].ID = subsA[l.a].ID

\* C4: compare returns nil exactly when nothing is mismatched or missing, and
\* otherwise an error that counts mismatched + missing; it returns only after
\* every non-master record of A is classified and the summary line is printed.
C4_Result ==
    /\ cpc = "loop" => cmpErr = NotReturned
    /\ (cpc = "done" /\ fileA.readable /\ fileB.readable) =>
          /\ ci = Len(subsA) + 1
          /\ Len(RecordLines) = NumCompared(fileA)
          /\ SummaryPrinted
          /\ cmpOut[Len(cmpOut)].tag = "SUMMARY"
          /\ cmpErr = Nil <=> (mismatch = 0 /\ missing = 0)
          /\ cmpErr # Nil =>
                /\ cmpErr.kind = "key(s) missing or attributes differ"
                /\ cmpErr.n = mismatch + missing
                /\ cmpErr.n > 0

\* a failure returned after a first record that is missing and a second that
\* is classified all the same
C4_Witness ==
    /\ cpc = "done"
    /\ Len(RecordLines) = 2
    /\ RecordLines[1].tag = "MISS"
    /\ RecordLines[2].tag = "DIFF"
    /\ cmpErr.n = 2

\* the records of a file that are not named master, in the order of the file
NonMaster(file) == SelectSeq(file.subs, LAMBDA sub : sub.Name # "master")

\* the records of as that have a record of bs with both keys, and the first
\* such record of bs
Partnered(as, bs) == {i \in 1..Len(as) : \E j \in 1..Len(bs) : SameKeys(as[i], bs[j])}
FirstPartner(a, bs) ==
    CHOOSE j \in 1..Len(bs) :
        SameKeys(a, bs[j]) /\ \A k \in 1..(j - 1) : ~SameKeys(a, bs[k])

\* C14: records named master have no part in a comparison.  What is compared
\* are the records of A and of B that are not named master, and the counts
\* and the result are those of these records alone, so that two pairs of
\* files that differ only in master records compare alike.
C14_MasterIgnored ==
    Comparing =>
        LET as == NonMaster(fileA)
            bs == NonMaster(fileB)
            same == {i \in Partnered(as, bs) : SameTracked(as[i], bs[FirstPartner(as[i], bs)])}
        IN  /\ subsA = as
            /\ subsB = bs
            /\ cpc = "done" =>
                  /\ matched = Cardinality(same)
                  /\ mismatch = Cardinality(Partnered(as, bs) \ same)
                  /\ missing = Len(as) - Cardinality(Partnered(as, bs))
                  /\ cmpErr = Nil <=> (Cardinality(same) = Len(as))

\* each file holds a master record and the same other record; the master
\* records share the keys of the other record and differ from each other
C14_Witness ==
    /\ cpc = "done"
    /\ Len(fileA.subs) = 2 /\ Len(fileB.subs) = 2
    /\ fileA.subs[1].Name = "master" /\ fileB.subs[1].Name = "master"
    /\ fileA.subs[1].Properties # fileB.subs[1].Properties
    /\ SameKeys(fileA.subs[1], fileA.subs[2])
    /\ SameKeys(fileB.subs[1], fileB.subs[2])
    /\ fileA.subs[2] = fileB.subs[2]
    /\ matched = 1 /\ mismatch = 0 /\ missing = 0
    /\ cmpErr = Nil

\* the fields a printed difference names
Reported(l) == {l.diff[k] : k \in 1..Len(l.diff)}

Differing(a, b) == {f \in DOMAIN a.Properties : a.Properties[f] # b.Properties[f]}

\* C16: the differences printed for a mismatched pair name exactly the
\* properties in which the two records differ, each once; a comparison of
\* one pair that differs in the display name alone is mismatched, names the
\* display name and nothing else, and returns a failure that counts 1.
C16_Differences ==
    Comparing =>
        /\ \A k \in 1..Len(RecordLines) :
              LET l == RecordLines[k]
              IN  l.tag = "DIFF" =>
                    /\ Reported(l) = Differing(subsA[l.a], subsB[l.b])
                    /\ Len(l.diff) = Cardinality(Reported(l))
                    /\ l.diff # <<>>
        /\ (/\ cpc = "done"
            /\ Len(subsA) = 1
            /\ Len(RecordLines) = 1
            /\ RecordLines[1].b # 0
            /\ Differing(subsA[1], subsB[RecordLines[1].b]) = {"DisplayName"}) =>
                /\ RecordLines[1].tag = "DIFF"
                /\ RecordLines[1].diff = <<"DisplayName">>
                /\ matched = 0 /\ mismatch = 1 /\ missing = 0
                /\ cmpErr = ErrorfN("key(s) missing or attributes differ", 1)

\* one pair that differs in the display name alone
C16_Witness ==
    /\ cpc = "done"
    /\ Len(subsA) = 1
    /\ Len(RecordLines) = 1
    /\ RecordLines[1].tag = "DIFF"
    /\ RecordLines[1].diff = <<"DisplayName">>
    /\ Differing(subsA[1], subsB[RecordLines[1].b]) = {"DisplayName"}
    /\ cmpErr.n = 1

(***************************************************************************)
(* Properties of delete.                                                   *)
(***************************************************************************)
Deleting == pc \in {"delete", "deleteDone"}

\* the positions in calls of the delete requests
DeleteCalls == {k \in 1..Len(calls) : calls[k].op = "Delete"}

\* C18: without --all, delete issues no delete request for the subscription
\* named master, prints it as skipped and counts it in skipped, and the
\* instance keeps it; with --all the master subscription is handled like any
\* other: it is not skipped, and outside dry-run a delete request is issued
\* for it and it is counted as deleted or as failed.
C18_MasterPreserved ==
    Deleting =>
        /\ Len(deleteOut) = ri - 1
        /\ deleted + skipped + failed = ri - 1
        /\ skipped = Cardinality({k \in 1..Len(deleteOut) : deleteOut[k].tag = "SKIP"})
        /\ ~deleteAll =>
              /\ \A k \in DeleteCalls : calls[k].sid # "master"
              /\ \A k \in 1..Len(deleteOut) :
                    (deleteOut[k].tag = "SKIP") <=> (subs[k].Name = "master")
              /\ remote["master"] = remote0["master"]
        /\ deleteAll =>
              /\ skipped = 0
              /\ ~deleteDryRun =>
                    \A k \in 1..Len(deleteOut) :
                        /\ deleteOut[k].tag \in {"OK", "FAIL"}
                        /\ \E c \in DeleteCalls : calls[c].sid = subs[k].Name /\ calls[c].i = k
                        /\ deleteOut[k].tag = "OK" => ~remote[subs[k].Name].exists

\* a run without --all that deleted another subscription and skipped master
C18_Witness ==
    /\ pc = "deleteDone"
    /\ ~deleteAll /\ ~deleteDryRun
    /\ Len(subs) >= 2
    /\ subs[1].Name = "master"
    /\ deleteOut[1].tag = "SKIP"
    /\ deleteOut[2].tag = "OK"
    /\ skipped = 1
    /\ deleted = Len(subs) - 1
    /\ remote["master"].exists
    /\ deleteErr = Nil

\* C19: a dry run changes nothing: restore with --dry-run issues no
\* create-or-update request (and no other call), delete with --dry-run issues
\* no delete request, and the subscriptions of the instance stay what they
\* were when the command started; both count the records they would handle.
C19_DryRun ==
    /\ (pc \in {"restore", "restoreDone"} /\ restoreDryRun) =>
          /\ calls = <<>>
          /\ remote = remote0
          /\ \A k \in 1..Len(restoreOut) : restoreOut[k].tag = "DRY-RUN"
    /\ (Deleting /\ deleteDryRun) =>
          /\ DeleteCalls = {}
          /\ remote = remote0
          /\ \A k \in 1..Len(deleteOut) : deleteOut[k].tag \in {"DRY-RUN", "SKIP"}

\* a dry run of restore over two records, the first of a subscription that
\* an earlier delete run removed
C19_Witness ==
    /\ pc = "restoreDone"
    /\ restoreDryRun
    /\ Len(subs) = 2
    /\ restored = 2
    /\ restoreErr = Nil
    /\ subs[1].Name = "s1"
    /\ ~remote["s1"].exists
    /\ remote = remote0

(***************************************************************************)
(* Properties of backup and restore.                                       *)
(***************************************************************************)
Restoring == pc \in {"restore", "restoreDone"}

\* the positions in calls of the create-or-update requests
CreateCalls == {k \in 1..Len(calls) : calls[k].op = "CreateOrUpdate"}

\* the loop of runRestore has gone through every record of the file it read
LoopFinished == pc = "restoreDone" /\ input.readable /\ ri > Len(subs)

\* C5: restore skips a record named "master": it issues no create-or-update
\* request for it and counts it neither as restored nor as failed.  (The
\* restore command has no flag that would include it.)
C5_MasterSkipped ==
    Restoring =>
        /\ \A k \in CreateCalls : calls[k].sid # "master"
        /\ \A k \in 1..Len(restoreOut) :
              restoreOut[k].sid = "master" => restoreOut[k].tag \notin {"OK", "FAIL", "DRY-RUN"}

\* C6: when the listing of a backup run fails (NextPage, or ListSecrets for
\* one subscription), backup returns an error, does not report success and
\* writes no file.
C6_ListingFailureAborts ==
    (pc = "backupDone" /\ listErr \notin {Nil, NotReturned}) =>
        /\ backupErr # Nil
        /\ ~wrote
        /\ \A k \in 1..Len(backupOut) : backupOut[k].tag # "completed successfully"

C7_ContinuesAndTallies ==
    /\ (pc = "restore" \/ LoopFinished) =>
          /\ restored + failed = ri - 1
          /\ Len(restoreOut) = ri - 1
          /\ ~restoreDryRun =>
                /\ Cardinality(CreateCalls) = ri - 1
                /\ \A i \in 1..(ri - 1) : \E k \in CreateCalls : calls[k].i = i
    /\ LoopFinished =>
          /\ restored + failed = Len(input.subs)
          /\ (restoreErr # Nil) <=> (failed > 0)

C7_Witness ==
    /\ LoopFinished
    /\ ~restoreDryRun
    /\ Len(subs) = 2
    /\ restoreOut[1].tag = "FAIL"
    /\ restoreOut[2].tag = "OK"
    /\ Cardinality(CreateCalls) = 2
    /\ failed = 1 /\ restored = 1
    /\ restoreErr = ErrorfN("subscription(s) failed to restore", 1)

\* the fields of a contract that a restore is to reproduce
Reproduced == {"PrimaryKey", "SecondaryKey", "Scope", "DisplayName", "State", "OwnerID", "AllowTracing"}

\* C8: when restore reads the file that backup wrote from this instance,
\* every record it reports as restored is a subscription of the instance
\* under the same name, with the keys, scope, display name, state, owner and
\* tracing flag the subscription had when the backup was taken.
C8_RoundTrip ==
    (Restoring /\ fromBackup /\ ~restoreDryRun) =>
        \A k \in 1..Len(restoreOut) :
            restoreOut[k].tag = "OK" =>
                LET n == subs[k].Name
                IN  /\ remote[n].exists
                    /\ \A f \in Reproduced : remote[n][f] = origin[n][f]

\* C9: every create-or-update request of restore names the subscription by
\* the Name of its record and carries the record's primary key, secondary
\* key, state, owner, tracing flag and display name (a field the record has
\* empty is not sent); the scope it carries is one of the target instance.
C9_RequestCarriesRecord ==
    Restoring =>
        \A k \in CreateCalls :
            LET sub == subs[calls[k].i]
                p == calls[k].params
            IN  /\ calls[k].sid = sub.Name
                /\ deref(p.PrimaryKey) = sub.Properties.PrimaryKey
                /\ deref(p.SecondaryKey) = sub.Properties.SecondaryKey
                /\ deref(p.State) = sub.Properties.State
                /\ deref(p.OwnerID) = sub.Properties.OwnerID
                /\ p.AllowTracing = Ptr(sub.Properties.AllowTracing)
                /\ p.DisplayName = Ptr(sub.Properties.DisplayName)
                /\ ~p.Scope.nil
                /\ Len(p.Scope.v) >= Len(InstanceScope(apim))
                /\ SubSeq(p.Scope.v, 1, Len(InstanceScope(apim))) = InstanceScope(apim)

C9_Witness ==
    /\ Restoring
    /\ \E k \in CreateCalls :
          LET sub == subs[calls[k].i]
          IN  /\ sub.Properties.OwnerID # ""
              /\ sub.Properties.PrimaryKey # ""
              /\ sub.Properties.AllowTracing
              /\ calls[k].params.Scope.v # sub.Properties.Scope
    /\ \E k \in CreateCalls :
          LET sub == subs[calls[k].i]
          IN  /\ sub.Properties.PrimaryKey = ""
              /\ sub.Properties.State = ""
              /\ calls[k].params.PrimaryKey.nil

(***************************************************************************)
(* Properties of compare: direction and duplicates.                        *)
(***************************************************************************)
\* the records of bs that share both keys with a record of as, in their order
Shared(as, bs) == SelectSeq(bs, LAMBDA b : \E i \in 1..Len(as) : SameKeys(as[i], b))

\* what the first record of bs with both keys of a says about a
Classify(a, bs) ==
    IF \A j \in 1..Len(bs) : ~SameKeys(a, bs[j]) THEN "MISS"
    ELSE IF SameTracked(a, bs[FirstPartner(a, bs)]) THEN "OK"
    ELSE "DIFF"

\* the number of records of as that bs classifies as tag
Classified(as, bs, tag) == Cardinality({i \in 1..Len(as) : Classify(as[i], bs) = tag})

\* C27: compare looks from A to B only.  The line printed for each record of
\* A, the three counts and the result are those of a comparison of A with
\* the records of B that share their keys with some record of A: the other
\* records of B change nothing, and a comparison succeeds whether or not B
\* holds them.
C27_OneDirectional ==
    Comparing =>
        LET as == NonMaster(fileA)
            bs == Shared(as, NonMaster(fileB))
        IN  /\ \A k \in 1..Len(RecordLines) : RecordLines[k].tag = Classify(as[k], bs)
            /\ cpc = "done" =>
                  /\ matched = Classified(as, bs, "OK")
                  /\ mismatch = Classified(as, bs, "DIFF")
                  /\ missing = Classified(as, bs, "MISS")
                  /\ cmpErr = compareResult(Classified(as, bs, "MISS"), Classified(as, bs, "DIFF"))

\* B begins with a record that A does not hold, and the comparison succeeds
C27_Witness ==
    /\ cpc = "done"
    /\ Len(subsA) = 2
    /\ Len(subsB) = 2
    /\ \A i \in 1..Len(subsA) : ~SameKeys(subsA[i], subsB[1])
    /\ matched = 2
    /\ cmpErr = Nil

\* the run compared a file with itself
SelfCompare == cpc = "done" /\ fileA.readable /\ fileB = fileA

\* every record of A is matched
AllMatched == matched = Len(subsA) /\ mismatch = 0 /\ missing = 0 /\ cmpErr = Nil

\* the record of A of each line that has records of B with both its keys is
\* paired with the first of them, and that record alone says whether the line
\* is [OK] or [DIFF]
FirstDecides ==
    \A k \in 1..Len(RecordLines) :
        LET a == subsA[k]
            l == RecordLines[k]
        IN  (\E j \in 1..Len(subsB) : SameKeys(a, subsB[j])) =>
                /\ l.b = FirstPartner(a, subsB)
                /\ l.tag = (IF SameTracked(a, subsB[l.b]) THEN "OK" ELSE "DIFF")

\* C28, as stated: the first record of B with both keys decides, and a file
\* compared with itself is all matched only if no two of its records that are
\* not named master share both keys.
C28_AsStated ==
    Comparing =>
        /\ FirstDecides
        /\ (SelfCompare /\ AllMatched) =>
              \A i \in 1..Len(subsA), j \in 1..Len(subsA) :
                  i # j => ~SameKeys(subsA[i], subsA[j])

\* C28: when several records of B share both keys, the first of them in the
\* order of B alone decides about a record of A with these keys: the record
\* of A is mismatched when that first record differs in a tracked attribute,
\* even when a later one is equal in all of them.  A file compared with itself
\* is all matched exactly when each of its records that are not named master
\* is equal in every tracked attribute to the first such record with both its
\* keys; records that share both keys and all tracked attributes do not
\* prevent it.
C28_FirstDecides ==
    Comparing =>
        /\ FirstDecides
        /\ SelfCompare =>
              (AllMatched <=>
                  \A i \in 1..Len(subsA) :
                      SameTracked(subsA[i], subsA[FirstPartner(subsA[i], subsA)]))

\* a file compared with itself whose second record has the keys of the first
\* and another display name: the second record is mismatched against the
\* first, although the file holds it unchanged
C28_Witness ==
    /\ SelfCompare
    /\ Len(subsA) = 2
    /\ SameKeys(subsA[1], subsA[2])
    /\ ~SameTracked(subsA[1], subsA[2])
    /\ RecordLines[2].tag = "DIFF"
    /\ RecordLines[2].b = 1
    /\ matched = 1
    /\ mismatch = 1
    /\ cmpErr = ErrorfN("key(s) missing or attributes differ", 1)

(***************************************************************************)
(* Properties of the loops of restore and delete.                          *)
(***************************************************************************)
\* the requests at the positions ks of calls are issued one per record, in the
\* order of the records of list, each for the record of its pass, and the
\* line that reports the outcome of each is in out
OnePerRecordInOrder(ks, list, out) ==
    /\ \A k \in ks :
          /\ calls[k].i \in 1..Len(list)
          /\ calls[k].i < ri
          /\ calls[k].sid = list[calls[k].i].Name
          /\ calls[k].i <= Len(out)
          /\ out[calls[k].i].sid = calls[k].sid
          /\ out[calls[k].i].tag \in {"OK", "FAIL"}
    /\ \A k1 \in ks, k2 \in ks : k1 < k2 => calls[k1].i < calls[k2].i

\* C22: restore and delete go through the records one at a time in the order
\* of the file (of the listing): at most one create-or-update (delete) request
\* is issued per record, the requests are issued in the order of the records,
\* and the outcome of the request for a record is reported before a request
\* for a later record is issued.
C22_Sequential ==
    /\ Restoring => OnePerRecordInOrder(CreateCalls, subs, restoreOut)
    /\ Deleting => OnePerRecordInOrder(DeleteCalls, subs, deleteOut)

C22_Witness ==
    /\ pc = "restoreDone"
    /\ Len(subs) = 2
    /\ subs[1].Name = "s2"
    /\ subs[2].Name = "s1"
    /\ Cardinality(CreateCalls) = 2
    /\ restoreOut[1].tag = "FAIL"
    /\ restoreOut[2].tag = "OK"

\* C23: a restore that cannot read or parse its file, or whose client cannot
\* be built, and a delete whose client cannot be built or whose listing fails,
\* return an error before they take any record: no create-or-update and no
\* delete request is issued, nothing is reported per record and the instance
\* is as it was.
C23_FatalFirst ==
    /\ (Restoring /\ ~input.readable) =>
          restoreErr = Errorf("failed to read or parse input file")
    /\ (Restoring /\ restoreErr \in {Errorf("failed to read or parse input file"),
                                    Errorf("authentication failed")}) =>
          /\ pc = "restoreDone"
          /\ CreateCalls = {} /\ DeleteCalls = {}
          /\ restoreOut = <<>> /\ restored = 0 /\ failed = 0
          /\ remote = remote0
    /\ (Deleting /\ deleteErr \in {Errorf("authentication failed"),
                                  Errorf("failed to list subscriptions")}) =>
          /\ pc = "deleteDone"
          /\ CreateCalls = {} /\ DeleteCalls = {}
          /\ deleteOut = <<>> /\ deleted = 0 /\ skipped = 0 /\ failed = 0
          /\ remote = remote0

\* a restore of a file of two records stopped at the authentication, on an
\* instance that lacks the first record
C23_Witness ==
    /\ pc = "restoreDone"
    /\ restoreErr = Errorf("authentication failed")
    /\ ~restoreDryRun
    /\ Len(input.subs) = 2
    /\ input.subs[1].Name = "s2"
    /\ ~remote["s2"].exists
    /\ calls = <<>>

\* the number of lines of out with the tag
Tagged(out, tag) == Len(SelectSeq(out, LAMBDA l : l.tag = tag))

\* the loop of runDelete has gone through every record of the listing
DeleteLoopFinished == pc = "deleteDone" /\ deleteErr.kind \in {"nil", "subscription(s) failed to delete"}

\* C24: delete goes on after a record whose delete request failed, and its
\* tally is exact: each record handled so far has one line and counts in
\* exactly one of deleted, skipped and failed, so that after the loop the three
\* add up to the number of records listed; and a delete that went through its
\* loop returns an error exactly when failed > 0.
C24_Tally ==
    Deleting =>
        /\ Len(deleteOut) = (IF pc = "delete" THEN ri - 1 ELSE Len(subs))
        /\ \A k \in 1..Len(deleteOut) :
              /\ deleteOut[k].sid = subs[k].Name
              /\ deleteOut[k].tag \in {"OK", "DRY-RUN", "SKIP", "FAIL"}
        /\ deleted = Tagged(deleteOut, "OK") + Tagged(deleteOut, "DRY-RUN")
        /\ skipped = Tagged(deleteOut, "SKIP")
        /\ failed = Tagged(deleteOut, "FAIL")
        /\ deleted + skipped + failed = Len(deleteOut)
        /\ DeleteLoopFinished =>
              /\ deleted + skipped + failed = Len(subs)
              /\ (deleteErr # Nil) <=> (failed > 0)
              /\ failed > 0 => deleteErr = ErrorfN("subscription(s) failed to delete", failed)

\* the request for the first record failed and the second record was deleted
C24_Witness ==
    /\ pc = "deleteDone"
    /\ Len(subs) = 3
    /\ deleteOut[1].tag = "SKIP"
    /\ deleteOut[2].tag = "FAIL"
    /\ deleteOut[3].tag = "OK"
    /\ deleted = 1 /\ skipped = 1 /\ failed = 1
    /\ deleteErr = ErrorfN("subscription(s) failed to delete", 1)

\* the scope holds no "/products/"
NoProductsMarker(scope) == ~Contains(scope, productsMarker)

\* C25: the variant of restore that rebuilds the scope of a product skips a
\* record whose scope holds no "/products/": it issues no create-or-update
\* request for it, counts it as failed, in dry-run mode too, goes on with the
\* next record, and returns a failure at the end.
C25_NoProductSkipped ==
    Restoring =>
        /\ pc = "restore" => Len(restoreOut) = ri - 1
        /\ LoopFinished => Len(restoreOut) = Len(subs)
        /\ failed = Tagged(restoreOut, "SKIP") + Tagged(restoreOut, "FAIL")
        /\ \A k \in 1..Len(restoreOut) :
              NoProductsMarker(subs[k].Properties.Scope) =>
                  /\ restoreOut[k] = [tag |-> "SKIP", sid |-> subs[k].Name]
                  /\ \A c \in 1..Len(calls) : calls[c].i # k
                  /\ failed > 0
                  /\ LoopFinished => restoreErr = ErrorfN("subscription(s) failed to restore", failed)

\* a dry run over a record without a product and a record of a product
C25_Witness ==
    /\ pc = "restoreDone"
    /\ restoreDryRun
    /\ Len(subs) = 2
    /\ NoProductsMarker(subs[1].Properties.Scope)
    /\ ~NoProductsMarker(subs[2].Properties.Scope)
    /\ restoreOut = <<[tag |-> "SKIP", sid |-> subs[1].Name], [tag |-> "DRY-RUN", sid |-> subs[2].Name]>>
    /\ failed = 1
    /\ restored = 1
    /\ calls = <<>>
    /\ restoreErr = ErrorfN("subscription(s) failed to restore", 1)

\* every line that restore printed for the entity name n is a [FAIL] line
OnlyFailed(n) ==
    /\ \E k \in 1..Len(restoreOut) : restoreOut[k].sid = n
    /\ \A k \in 1..Len(restoreOut) : restoreOut[k].sid = n => restoreOut[k].tag = "FAIL"

\* C26: a record that restore counts as failed has left the instance alone:
\* the subscription of an entity name for which the run reported nothing but
\* [FAIL] is as it was when the run started.
C26_FailedUnchanged ==
    Restoring => \A n \in DOMAIN remote : OnlyFailed(n) => remote[n] = remote0[n]

\* the entity names of the records restore read
SnapshotNames == {subs[k].Name : k \in 1..Len(subs)}

\* C30: restore writes only the entities that its file names.  It issues no
\* delete request; each request it issues is for the name of a record of the
\* file; no subscription of the instance goes away; and every subscription
\* whose name the file does not hold is as it was when the run started.
C30_OnlySnapshotEntities ==
    Restoring =>
        /\ DeleteCalls = {}
        /\ \A c \in 1..Len(calls) :
              /\ calls[c].op \in {"CreateOrUpdate", "ListSecrets"}
              /\ calls[c].sid \in SnapshotNames
        /\ \A n \in DOMAIN remote :
              /\ remote0[n].exists => remote[n].exists
              /\ n \notin SnapshotNames => remote[n] = remote0[n]

\* a restore of one record wrote s1 on an instance that also holds s2
C30_Witness ==
    /\ pc = "restoreDone"
    /\ ~restoreDryRun
    /\ SnapshotNames = {"s1"}
    /\ restored = 1
    /\ remote["s1"] # remote0["s1"]
    /\ remote0["s2"].exists
    /\ remote["s2"] = remote0["s2"]
    /\ remote["master"] = remote0["master"]

(***************************************************************************)
(* The specifications.                                                     *)
(***************************************************************************)
ScopeIdle ==
    /\ args = [mode |-> "idle"]
    /\ built = None
    /\ extracted = None
    /\ rebuilt = None
    /\ reextracted = None
    /\ spc = "idle"

CompareIdle ==
    /\ fileA = Unreadable /\ fileB = Unreadable /\ subsA = <<>> /\ subsB = <<>>
    /\ ci = 0 /\ matched = 0 /\ missing = 0 /\ mismatch = 0
    /\ cmpOut = <<>> /\ cmpErr = NotReturned /\ cpc = "idle"

OpsIdle ==
    /\ apim = OtherInstance /\ remote = <<>> /\ input = Unreadable /\ fromBackup = FALSE
    /\ origin = <<>> /\ afterRestore = FALSE /\ pc = "off" /\ calls = <<>> /\ remote0 = <<>>
    /\ LoopIdle
    /\ RestoreIdle
    /\ BackupIdle
    /\ DeleteIdle

InitScope ==
    /\ ScopeInit
    /\ CompareIdle
    /\ OpsIdle

SpecScope == InitScope /\ [][ScopeNext]_vars

CompareNext == CompareLoadFails \/ CompareLoad \/ CompareRecord \/ CompareReturn

InitCompare ==
    /\ CompareInit
    /\ ScopeIdle
    /\ OpsIdle

SpecCompare == InitCompare /\ [][CompareNext]_vars

\* backup and restore, any number of times in any order
OpsNext ==
    \/ RestoreStart \/ RestoreRecord \/ RestoreReturn
    \/ BackupSetupFails \/ Backup

\* delete, any number of times
DeleteNext == DeleteStart \/ DeleteRecord \/ DeleteReturn

InitOps ==
    /\ OpsInit
    /\ ScopeIdle
    /\ CompareIdle

Spec == InitOps /\ [][OpsNext]_vars

SpecDelete == InitOps /\ [][DeleteNext]_vars

\* restore and delete, any number of times in any order
RestoreDeleteNext ==
    \/ RestoreStart \/ RestoreRecord \/ RestoreReturn
    \/ DeleteStart \/ DeleteRecord \/ DeleteReturn

SpecRestoreDelete == InitOps /\ [][RestoreDeleteNext]_vars

\* the variant of restore that rebuilds the scope of a product, any number of times
RestoreProductNext == RestoreStart \/ RestoreRecordProduct \/ RestoreReturn

SpecRestoreProduct == InitOps /\ [][RestoreProductNext]_vars

====
